---- MODULE Spec2Model ----
(***************************************************************************)
(* TDstatv3 potentiostat/galvanostat firmware (PIC16F1459).                *)
(*                                                                         *)
(* The firmware is one sequential program: InitializeIO, usb_init and the  *)
(* polling loop of main.  Every routine of the firmware is written here as *)
(* the sequence of primitive operations its C body performs (pin writes,   *)
(* busy-wait delays, pin samples, buffer copies); a call is an operation   *)
(* that is replaced by the callee's body when it is reached.  The variable *)
(* todo holds the operations that remain to be executed by the routine in  *)
(* progress (the continuation of the program counter inside the call       *)
(* stack), pc the position in main.                                        *)
(*                                                                         *)
(* The DAC1220, the two MCP3550 converters, the high-endurance flash and   *)
(* the USB host are the environment of the program.                        *)
(***************************************************************************)
EXTENDS Integers, Sequences, FiniteSets, TLC

VARIABLES
    pc,                    \* position in main / InitializeIO
    todo,                  \* operations left in the routine in progress
    pin,                   \* LATx / TRISx bits the firmware writes
    data,                  \* the handler's local uint8_t data[6] / adc_data[6]
    data_ready,            \* MCP3550_Read's local and return value
    heflashbuffer,         \* static heflashbuffer (the 6 bytes that are used)
    received_data,         \* bytes of the OUT buffer, received_data_length long
    received_data_length,
    transmit_data,         \* the IN buffer (the 6 bytes that are ever written)
    transmit_data_length,
    heflash,               \* calibration store: row number -> record  
    dac,                   \* DAC1220: registers and serial interface
    adc,                   \* the MCP3550 pair behind CS2
    usb,                   \* endpoint 1 as the USB stack reports it
    obs                    \* observers of the command in progress and counters

vars == <<pc, todo, pin, data, data_ready, heflashbuffer, received_data,
          received_data_length, transmit_data, transmit_data_length,
          heflash, dac, adc, usb, obs>>

(***************************************************************************)
(* Bounds of the model.                                                    *)
(***************************************************************************)
\* number of command buffers the host delivers in one run
MaxCmds == 2

(***************************************************************************)
(* Program constants.                                                      *)
(***************************************************************************)
LOW == 0
HIGH == 1
OUTPUT == 0
INPUT == 1
CELL_ON == 1
CELL_OFF == 0
POTENTIOSTATIC == 0
GALVANOSTATIC == 1
\* instruction cycles per microsecond: _XTAL_FREQ / 4 / 10^6
CyclesPerUs == 12
\* _delay(200) of SPIDelay, in instruction cycles
SPIDelayCycles == 200
\* number of bytes of a calibration record / of a reply of raw bytes
RecordLen == 6

Byte == 0..255
Rows == {1, 2, 3}
OffsetRow == 1
DacCalRow == 2
ShuntCalRow == 3

(***************************************************************************)
(* Byte helpers.                                                           *)
(***************************************************************************)
RECURSIVE Pow2(_)
Pow2(n) == IF n = 0 THEN 1 ELSE 2 * Pow2(n - 1)

\* bit i (0 = least significant) of byte b
BitOf(b, i) == (b \div Pow2(i)) % 2

\* uint8_t x <<= 1
Shl1(b) == (b * 2) % 256

\* x &= 0xFE
ClearBit0(b) == b - (b % 2)

\* x |= 0x01
SetBit0(b) == b - (b % 2) + 1

Zeros6 == <<0, 0, 0, 0, 0, 0>>

(***************************************************************************)
(* ASCII literals of the firmware.                                         *)
(***************************************************************************)
STR_CELL_ON == <<67, 69, 76, 76, 32, 79, 78>>
STR_CELL_OFF == <<67, 69, 76, 76, 32, 79, 70, 70>>
STR_POTENTIOSTATIC == <<80, 79, 84, 69, 78, 84, 73, 79, 83, 84, 65, 84, 73, 67>>
STR_GALVANOSTATIC == <<71, 65, 76, 86, 65, 78, 79, 83, 84, 65, 84, 73, 67>>
STR_RANGE_1 == <<82, 65, 78, 71, 69, 32, 49>>
STR_RANGE_2 == <<82, 65, 78, 71, 69, 32, 50>>
STR_RANGE_3 == <<82, 65, 78, 71, 69, 32, 51>>
STR_DACSET == <<68, 65, 67, 83, 69, 84, 32>>
STR_DACCAL == <<68, 65, 67, 67, 65, 76>>
STR_ADCREAD == <<65, 68, 67, 82, 69, 65, 68>>
STR_OFFSETREAD == <<79, 70, 70, 83, 69, 84, 82, 69, 65, 68>>
STR_OFFSETSAVE == <<79, 70, 70, 83, 69, 84, 83, 65, 86, 69, 32>>
STR_DACCALGET == <<68, 65, 67, 67, 65, 76, 71, 69, 84>>
STR_DACCALSET == <<68, 65, 67, 67, 65, 76, 83, 69, 84, 32>>
STR_SHUNTCALREAD == <<83, 72, 85, 78, 84, 67, 65, 76, 82, 69, 65, 68>>
STR_SHUNTCALSAVE == <<83, 72, 85, 78, 84, 67, 65, 76, 83, 65, 86, 69, 32>>
STR_UNKNOWN == <<63>>
STR_OK == <<79, 75>>
STR_WAIT == <<87, 65, 73, 84>>

\* character i (0-based) of a C string held as a sequence; past its end: NUL
CharAt(s, i) == IF i + 1 <= Len(s) THEN s[i + 1] ELSE 0

\* strncmp(s1, s2, n): 0 when the first n characters agree (or both strings
\* end together before that), otherwise the sign of the first difference
RECURSIVE strncmp_from(_, _, _, _)
strncmp_from(s1, s2, n, i) ==
    IF i >= n THEN 0
    ELSE IF CharAt(s1, i) # CharAt(s2, i)
         THEN (IF CharAt(s1, i) < CharAt(s2, i) THEN -1 ELSE 1)
    ELSE IF CharAt(s1, i) = 0 THEN 0
    ELSE strncmp_from(s1, s2, n, i + 1)

strncmp(s1, s2, n) == strncmp_from(s1, s2, n, 0)

\* strcpy(dst, src) into a 6-byte buffer: the characters and the final NUL
strcpy(dst, src) ==
    [i \in 1..Len(dst) |->
        IF i <= Len(src) THEN src[i]
        ELSE IF i = Len(src) + 1 THEN 0
        ELSE dst[i]]

\* memcpy(dst, src, n)
memcpy(dst, src, n) ==
    [i \in 1..Len(dst) |-> IF i <= n THEN src[i] ELSE dst[i]]

(***************************************************************************)
(* Primitive operations of the firmware.  Every operation is a record of   *)
(* the same shape: op (kind), pin (a pin or routine name), val, args.      *)
(***************************************************************************)
\* LATx / TRISx bit assignment:  p = v;
Set(p, v) == [op |-> "set", pin |-> p, val |-> v, args |-> <<>>]
\* busy wait of c instruction cycles
Delay(c) == [op |-> "delay", pin |-> "", val |-> c, args |-> <<>>]
\* call of a routine whose operations do not depend on the state
Call(f, a) == [op |-> "call", pin |-> f, val |-> 0, args |-> a]
\* statements whose operands are read from memory when they are reached
CallV(f) == [op |-> "callv", pin |-> f, val |-> 0, args |-> <<>>]
\* *byte = 0;
Clear(k) == [op |-> "clear", pin |-> "", val |-> k, args |-> <<>>]
\* byte <<= 1; byte &= 0xFE;
Shift(k) == [op |-> "shift", pin |-> "", val |-> k, args |-> <<>>]
\* if (p) byte |= 0x01;
Sample(p, k) == [op |-> "sample", pin |-> p, val |-> k, args |-> <<>>]
\* data_ready = v;
SetReady(v) == [op |-> "set_ready", pin |-> "", val |-> v, args |-> <<>>]
\* if (!DATA1_PIN) { ... }  of MCP3550_Read
IfConversionsReady == [op |-> "if_ready", pin |-> "DATA1_PIN", val |-> 0, args |-> <<>>]
\* strcpy(transmit_data, reply); transmit_data_length = strlen(reply);
ReplyStr(s) == [op |-> "reply_str", pin |-> "", val |-> 0, args |-> s]
\* transmit_data_length = 6; memcpy(transmit_data, heflashbuffer, 6);
ReplyHeflashbuffer == [op |-> "reply_hef", pin |-> "", val |-> 6, args |-> <<>>]
\* the if / else of command_read_adc on MCP3550_Read's result
ReplyAdc == [op |-> "reply_adc", pin |-> "", val |-> 6, args |-> <<>>]
\* HEFLASH_readBlock(heflashbuffer, row, FLASH_ROWSIZE);
HefRead(row) == [op |-> "hef_read", pin |-> "", val |-> row, args |-> <<>>]
\* HEFLASH_writeBlock(row, bytes, 6);  bytes taken from the command buffer
HefWrite(row, bytes) == [op |-> "hef_write", pin |-> "", val |-> row, args |-> bytes]
\* HEFLASH_writeBlock(row, data, 6);  bytes taken from the local array data
HefWriteData(row) == [op |-> "hef_write_data", pin |-> "", val |-> row, args |-> <<>>]

\* __delay_us(x), __delay_ms(x) at _XTAL_FREQ
delay_us(x) == Delay(x * CyclesPerUs)
delay_ms(x) == Delay(x * 1000 * CyclesPerUs)

(***************************************************************************)
(* spi_software.c                                                          *)
(***************************************************************************)
SPIDelay == <<Delay(SPIDelayCycles)>>

ClockPulse ==
    << Set("CLOCK_LAT", HIGH), Call("SPIDelay", <<>>),
       Set("CLOCK_LAT", LOW), Call("SPIDelay", <<>>) >>

InitializeSPI ==
    << Set("CS1_LAT", HIGH), Set("CS2_LAT", HIGH),
       Set("CS1_DIR", OUTPUT), Set("CS2_DIR", OUTPUT),
       Set("CLOCK_DIR", OUTPUT), Set("CLOCK_LAT", LOW),
       Set("DATA1_DIR", INPUT), Set("DATA2_DIR", INPUT) >>

\* (mutant) the least significant bit is sent first
WriteByteSPI_loop_lsb_first(data_byte, bit_counter) ==
    << Set("DATA1_LAT", IF BitOf(data_byte, 0) = 1 THEN HIGH ELSE LOW),
       Call("ClockPulse", <<>>) >>
    \o (IF (bit_counter - 1) % 256 # 0
        THEN <<Call("WriteByteSPI_loop", <<data_byte \div 2, (bit_counter - 1) % 256>>)>>
        ELSE <<>>)

\* one iteration of the do-while of WriteByteSPI and its loop test
WriteByteSPI_loop(data_byte, bit_counter) ==
    << Set("DATA1_LAT", IF BitOf(data_byte, 7) = 1 THEN HIGH ELSE LOW),
       Call("ClockPulse", <<>>) >>
    \o (IF (bit_counter - 1) % 256 # 0
        THEN <<Call("WriteByteSPI_loop", <<Shl1(data_byte), (bit_counter - 1) % 256>>)>>
        ELSE <<>>)

WriteByteSPI(data_byte) == <<Call("WriteByteSPI_loop", <<data_byte, 8>>)>>

\* one iteration of the do-while of ReadByteSPI; the byte is assembled in
\* place in data[k], where the caller stores the returned value
ReadByteSPI_loop(k, bit_counter) ==
    << Call("ClockPulse", <<>>), Shift(k), Sample("DATA1_PIN", k) >>
    \o (IF (bit_counter - 1) % 256 # 0
        THEN <<Call("ReadByteSPI_loop", <<k, (bit_counter - 1) % 256>>)>>
        ELSE <<>>)

ReadByteSPI(k) == <<Clear(k), Call("ReadByteSPI_loop", <<k, 8>>)>>

Read2BytesSPI_loop(k1, k2, bit_counter) ==
    << Call("ClockPulse", <<>>), Shift(k1), Shift(k2),
       Sample("DATA1_PIN", k1), Sample("DATA2_PIN", k2) >>
    \o (IF (bit_counter - 1) % 256 # 0
        THEN <<Call("Read2BytesSPI_loop", <<k1, k2, (bit_counter - 1) % 256>>)>>
        ELSE <<>>)

Read2BytesSPI(k1, k2) ==
    <<Clear(k1), Clear(k2), Call("Read2BytesSPI_loop", <<k1, k2, 8>>)>>

\* (mutant) the second and third reads store channel B one place too early
MCP3550_Read_ready_misplaced ==
    << Call("Read2BytesSPI", <<1, 4>>),
       Call("Read2BytesSPI", <<2, 4>>),
       Call("Read2BytesSPI", <<3, 5>>),
       SetReady(1),
       Set("CS2_LAT", HIGH), Call("SPIDelay", <<>>),
       Set("CS2_LAT", LOW), Call("SPIDelay", <<>>) >>

\* the body of  if(!DATA1_PIN) { ... }  in MCP3550_Read; adc_data is data
MCP3550_Read_ready ==
    << Call("Read2BytesSPI", <<1, 4>>),
       Call("Read2BytesSPI", <<2, 5>>),
       Call("Read2BytesSPI", <<3, 6>>),
       SetReady(1),
       Set("CS2_LAT", HIGH), Call("SPIDelay", <<>>),
       Set("CS2_LAT", LOW), Call("SPIDelay", <<>>) >>

\* (mutant) the converters are left selected when the read returns
MCP3550_Read_leaves_selected ==
    << SetReady(0),
       Set("CS2_LAT", LOW), Call("SPIDelay", <<>>),
       IfConversionsReady >>

\* (mutant) the ready test left out: the result is clocked out at once
MCP3550_Read_no_poll ==
    << SetReady(0),
       Set("CS2_LAT", LOW), Call("SPIDelay", <<>>),
       Call("MCP3550_Read_ready", <<>>),
       Set("CS2_LAT", HIGH), Call("SPIDelay", <<>>) >>

\* (mutant) the conversion-start pulse issued whether or not data was read
MCP3550_Read_always_restarts ==
    << SetReady(0),
       Set("CS2_LAT", LOW), Call("SPIDelay", <<>>),
       IfConversionsReady,
       Set("CS2_LAT", HIGH), Call("SPIDelay", <<>>),
       Set("CS2_LAT", LOW), Call("SPIDelay", <<>>),
       Set("CS2_LAT", HIGH), Call("SPIDelay", <<>>) >>

MCP3550_Read ==
    << SetReady(0),
       Set("CS2_LAT", LOW), Call("SPIDelay", <<>>),
       IfConversionsReady,
       Set("CS2_LAT", HIGH), Call("SPIDelay", <<>>) >>

\* (mutant) the third pulse rounded to 900 us
DAC1220_Reset_rounded ==
    << Set("CS1_LAT", LOW), Call("SPIDelay", <<>>),
       Set("CLOCK_LAT", HIGH), delay_us(264),
       Set("CLOCK_LAT", LOW), Call("SPIDelay", <<>>),
       Set("CLOCK_LAT", HIGH), delay_us(570),
       Set("CLOCK_LAT", LOW), Call("SPIDelay", <<>>),
       Set("CLOCK_LAT", HIGH), delay_us(900),
       Set("CLOCK_LAT", LOW), Call("SPIDelay", <<>>),
       Set("CS1_LAT", HIGH), Call("SPIDelay", <<>>) >>

DAC1220_Reset ==
    << Set("CS1_LAT", LOW), Call("SPIDelay", <<>>),
       Set("CLOCK_LAT", HIGH), delay_us(264),
       Set("CLOCK_LAT", LOW), Call("SPIDelay", <<>>),
       Set("CLOCK_LAT", HIGH), delay_us(570),
       Set("CLOCK_LAT", LOW), Call("SPIDelay", <<>>),
       Set("CLOCK_LAT", HIGH), delay_us(903),
       Set("CLOCK_LAT", LOW), Call("SPIDelay", <<>>),
       Set("CS1_LAT", HIGH), Call("SPIDelay", <<>>) >>

DAC1220_Write2Bytes(address, byte1, byte2) ==
    << Set("CS1_LAT", LOW), Call("SPIDelay", <<>>),
       Set("DATA1_DIR", OUTPUT),
       Call("WriteByteSPI", <<(32 + address) % 256>>),
       Call("WriteByteSPI", <<byte1>>),
       Call("WriteByteSPI", <<byte2>>),
       Set("DATA1_DIR", INPUT),
       Set("CS1_LAT", HIGH), Call("SPIDelay", <<>>) >>

\* (mutant) the three data bytes sent in reverse order
DAC1220_Write3Bytes_reversed(address, byte1, byte2, byte3) ==
    << Set("CS1_LAT", LOW), Call("SPIDelay", <<>>),
       Set("DATA1_DIR", OUTPUT),
       Call("WriteByteSPI", <<(64 + address) % 256>>),
       Call("WriteByteSPI", <<byte3>>),
       Call("WriteByteSPI", <<byte2>>),
       Call("WriteByteSPI", <<byte1>>),
       Set("DATA1_DIR", INPUT),
       Set("CS1_LAT", HIGH), Call("SPIDelay", <<>>) >>

DAC1220_Write3Bytes(address, byte1, byte2, byte3) ==
    << Set("CS1_LAT", LOW), Call("SPIDelay", <<>>),
       Set("DATA1_DIR", OUTPUT),
       Call("WriteByteSPI", <<(64 + address) % 256>>),
       Call("WriteByteSPI", <<byte1>>),
       Call("WriteByteSPI", <<byte2>>),
       Call("WriteByteSPI", <<byte3>>),
       Set("DATA1_DIR", INPUT),
       Set("CS1_LAT", HIGH), Call("SPIDelay", <<>>) >>

\* (mutant) the data line is turned to input only after the bytes are read
DAC1220_Read3Bytes_late_input(address, k1, k2, k3) ==
    << Set("CS1_LAT", LOW), Call("SPIDelay", <<>>),
       Set("DATA1_DIR", OUTPUT),
       Call("WriteByteSPI", <<(192 + address) % 256>>),
       Call("SPIDelay", <<>>),
       Call("ReadByteSPI", <<k1>>),
       Call("ReadByteSPI", <<k2>>),
       Call("ReadByteSPI", <<k3>>),
       Set("DATA1_DIR", INPUT),
       Set("CS1_LAT", HIGH), Call("SPIDelay", <<>>) >>

\* byte1, byte2, byte3 point into the local array data: indices k1, k2, k3
DAC1220_Read3Bytes(address, k1, k2, k3) ==
    << Set("CS1_LAT", LOW), Call("SPIDelay", <<>>),
       Set("DATA1_DIR", OUTPUT),
       Call("WriteByteSPI", <<(192 + address) % 256>>),
       Set("DATA1_DIR", INPUT), Call("SPIDelay", <<>>),
       Call("ReadByteSPI", <<k1>>),
       Call("ReadByteSPI", <<k2>>),
       Call("ReadByteSPI", <<k3>>),
       Set("CS1_LAT", HIGH), Call("SPIDelay", <<>>) >>

\* byte1, byte2 point into the local array data: indices k1, k2
DAC1220_Read2Bytes(address, k1, k2) ==
    << Set("CS1_LAT", LOW), Call("SPIDelay", <<>>),
       Set("DATA1_DIR", OUTPUT),
       Call("WriteByteSPI", <<(160 + address) % 256>>),
       Set("DATA1_DIR", INPUT), Call("SPIDelay", <<>>),
       Call("ReadByteSPI", <<k1>>),
       Call("ReadByteSPI", <<k2>>),
       Set("CS1_LAT", HIGH), Call("SPIDelay", <<>>) >>

DAC1220_Init ==
    << Call("DAC1220_Write2Bytes", <<4, 32, 160>>),
       Call("DAC1220_Write3Bytes", <<0, 128, 0, 0>>) >>

DAC1220_SelfCal == <<Call("DAC1220_Write2Bytes", <<4, 32, 161>>)>>

(***************************************************************************)
(* The command handlers and the dispatcher (main source file).             *)
(***************************************************************************)
command_unknown == <<ReplyStr(STR_UNKNOWN)>>

send_OK == <<ReplyStr(STR_OK)>>

command_cell_on == <<Set("CELL_ON_PIN", CELL_ON), Call("send_OK", <<>>)>>

\* (mutant) CELL OFF that writes the on level
command_cell_off_writes_on == <<Set("CELL_ON_PIN", CELL_ON), Call("send_OK", <<>>)>>

command_cell_off == <<Set("CELL_ON_PIN", CELL_OFF), Call("send_OK", <<>>)>>

command_mode_potentiostatic ==
    <<Set("MODE_SW_PIN", POTENTIOSTATIC), Call("send_OK", <<>>)>>

\* (mutant) GALVANOSTATIC that also switches the cell off
command_mode_galvanostatic_cell_off ==
    << Set("MODE_SW_PIN", GALVANOSTATIC), Set("CELL_ON_PIN", CELL_OFF),
       Call("send_OK", <<>>) >>

command_mode_galvanostatic ==
    <<Set("MODE_SW_PIN", GALVANOSTATIC), Call("send_OK", <<>>)>>

\* (mutant) RANGE 2 that forgets to release range 3
command_range2_keeps3 ==
    << Set("RANGE2_PIN", 1), delay_ms(10),
       Set("RANGE1_PIN", 0),
       Call("send_OK", <<>>) >>

command_range1 ==
    << Set("RANGE1_PIN", 1), delay_ms(10),
       Set("RANGE2_PIN", 0), Set("RANGE3_PIN", 0),
       Call("send_OK", <<>>) >>

command_range2 ==
    << Set("RANGE2_PIN", 1), delay_ms(10),
       Set("RANGE1_PIN", 0), Set("RANGE3_PIN", 0),
       Call("send_OK", <<>>) >>

command_range3 ==
    << Set("RANGE3_PIN", 1), delay_ms(10),
       Set("RANGE1_PIN", 0), Set("RANGE2_PIN", 0),
       Call("send_OK", <<>>) >>

command_set_dac(dac_data) ==
    << Call("DAC1220_Write3Bytes", <<0, dac_data[1], dac_data[2], dac_data[3]>>),
       Call("send_OK", <<>>) >>

\* (mutant) DACCAL that leaves the store alone
command_calibrate_dac_no_save ==
    << Call("DAC1220_SelfCal", <<>>),
       delay_ms(500),
       Call("DAC1220_Read3Bytes", <<8, 1, 2, 3>>),
       Call("DAC1220_Read3Bytes", <<12, 4, 5, 6>>),
       Call("send_OK", <<>>) >>

\* (mutant) the calibration registers are read before the wait
command_calibrate_dac_reads_early ==
    << Call("DAC1220_SelfCal", <<>>),
       Call("DAC1220_Read3Bytes", <<8, 1, 2, 3>>),
       Call("DAC1220_Read3Bytes", <<12, 4, 5, 6>>),
       delay_ms(500),
       HefWriteData(2),
       Call("send_OK", <<>>) >>

command_calibrate_dac ==
    << Call("DAC1220_SelfCal", <<>>),
       delay_ms(500),
       Call("DAC1220_Read3Bytes", <<8, 1, 2, 3>>),
       Call("DAC1220_Read3Bytes", <<12, 4, 5, 6>>),
       HefWriteData(2),
       Call("send_OK", <<>>) >>

command_read_adc == <<Call("MCP3550_Read", <<>>), ReplyAdc>>

command_read_offset == <<HefRead(1), ReplyHeflashbuffer>>

\* (mutant) OFFSETSAVE that returns without a reply
command_save_offset_no_reply(offset_data) ==
    <<HefWrite(1, SubSeq(offset_data, 1, 6))>>

command_save_offset(offset_data) ==
    <<HefWrite(1, SubSeq(offset_data, 1, 6)), Call("send_OK", <<>>)>>

command_read_shuntcalibration == <<HefRead(3), ReplyHeflashbuffer>>

\* (mutant) SHUNTCALSAVE that writes the offset row
command_save_shuntcalibration_row1(shuntcalibration_data) ==
    <<HefWrite(1, SubSeq(shuntcalibration_data, 1, 6)), Call("send_OK", <<>>)>>

command_save_shuntcalibration(shuntcalibration_data) ==
    <<HefWrite(3, SubSeq(shuntcalibration_data, 1, 6)), Call("send_OK", <<>>)>>

command_read_dac_cal == <<HefRead(2), ReplyHeflashbuffer>>

command_set_dac_cal(dac_cal_data) ==
    << HefWrite(2, SubSeq(dac_cal_data, 1, 6)),
       Call("DAC1220_Write3Bytes", <<8, dac_cal_data[1], dac_cal_data[2], dac_cal_data[3]>>),
       Call("DAC1220_Write3Bytes", <<12, dac_cal_data[4], dac_cal_data[5], dac_cal_data[6]>>),
       Call("send_OK", <<>>) >>

\* pointer arithmetic on the command buffer:  buf + n
PtrAdd(buf, n) == SubSeq(buf, n + 1, Len(buf))

\* (mutant) the length test written >= instead of ==
Matches_at_least(rd, len, total, token, n) == len >= total /\ strncmp(rd, token, n) = 0

\* one condition of interpret_command's chain:
\*   received_data_length == total && strncmp(received_data, token, n) == 0
Matches(rd, len, total, token, n) == len = total /\ strncmp(rd, token, n) = 0

\* the if / else-if chain of interpret_command on a buffer rd of length len
interpret_command_on(rd, len) ==
    IF Matches(rd, len, 7, STR_CELL_ON, 7)
        THEN <<Call("command_cell_on", <<>>)>>
    ELSE IF Matches(rd, len, 8, STR_CELL_OFF, 8)
        THEN <<Call("command_cell_off", <<>>)>>
    ELSE IF Matches(rd, len, 14, STR_POTENTIOSTATIC, 14)
        THEN <<Call("command_mode_potentiostatic", <<>>)>>
    ELSE IF Matches(rd, len, 13, STR_GALVANOSTATIC, 13)
        THEN <<Call("command_mode_galvanostatic", <<>>)>>
    ELSE IF Matches(rd, len, 7, STR_RANGE_1, 7)
        THEN <<Call("command_range1", <<>>)>>
    ELSE IF Matches(rd, len, 7, STR_RANGE_2, 7)
        THEN <<Call("command_range2", <<>>)>>
    ELSE IF Matches(rd, len, 7, STR_RANGE_3, 7)
        THEN <<Call("command_range3", <<>>)>>
    ELSE IF Matches(rd, len, 10, STR_DACSET, 7)
        THEN <<Call("command_set_dac", PtrAdd(rd, 7))>>
    ELSE IF Matches(rd, len, 6, STR_DACCAL, 6)
        THEN <<Call("command_calibrate_dac", <<>>)>>
    ELSE IF Matches(rd, len, 7, STR_ADCREAD, 7)
        THEN <<Call("command_read_adc", <<>>)>>
    ELSE IF Matches(rd, len, 10, STR_OFFSETREAD, 10)
        THEN <<Call("command_read_offset", <<>>)>>
    ELSE IF Matches(rd, len, 17, STR_OFFSETSAVE, 11)
        THEN <<Call("command_save_offset", PtrAdd(rd, 11))>>
    ELSE IF Matches(rd, len, 9, STR_DACCALGET, 9)
        THEN <<Call("command_read_dac_cal", <<>>)>>
    ELSE IF Matches(rd, len, 16, STR_DACCALSET, 10)
        THEN <<Call("command_set_dac_cal", PtrAdd(rd, 10))>>
    ELSE IF Matches(rd, len, 12, STR_SHUNTCALREAD, 12)
        THEN <<Call("command_read_shuntcalibration", <<>>)>>
    ELSE IF Matches(rd, len, 19, STR_SHUNTCALSAVE, 13)
        THEN <<Call("command_save_shuntcalibration", PtrAdd(rd, 13))>>
    ELSE <<Call("command_unknown", <<>>)>>

interpret_command == interpret_command_on(received_data, received_data_length)

\* (mutant) boot applies only the first half of the stored calibration
InitializeIO_apply_calibration_half ==
    << Call("DAC1220_Write3Bytes",
            <<8, heflashbuffer[1], heflashbuffer[2], heflashbuffer[3]>>) >>

\* InitializeIO, lines 171-172: the stored DAC calibration is applied
InitializeIO_apply_calibration ==
    << Call("DAC1220_Write3Bytes",
            <<8, heflashbuffer[1], heflashbuffer[2], heflashbuffer[3]>>),
       Call("DAC1220_Write3Bytes",
            <<12, heflashbuffer[4], heflashbuffer[5], heflashbuffer[6]>>) >>

\* InitializeIO, lines 155-164: each instrument pin is made an output, then
\* its latch is written
InitializeIO_outputs ==
    << Set("MODE_SW_TRIS", OUTPUT), Set("MODE_SW_PIN", POTENTIOSTATIC),
       Set("CELL_ON_TRIS", OUTPUT), Set("CELL_ON_PIN", CELL_OFF),
       Set("RANGE1_TRIS", OUTPUT), Set("RANGE2_TRIS", OUTPUT), Set("RANGE3_TRIS", OUTPUT),
       Set("RANGE1_PIN", 1), Set("RANGE2_PIN", 0), Set("RANGE3_PIN", 0) >>

\* InitializeIO (the oscillator and analog-select registers of lines 150-154
\* are not part of the state)
InitializeIO ==
    InitializeIO_outputs \o
    << Call("InitializeSPI", <<>>),
       delay_ms(25),
       Call("DAC1220_Reset", <<>>),
       delay_ms(25),
       Call("DAC1220_Init", <<>>),
       HefRead(2),
       CallV("InitializeIO_apply_calibration") >>

(***************************************************************************)
(* Calls: the body of routine f with arguments a.                          *)
(***************************************************************************)
RoutineBody(f, a) ==
    CASE f = "SPIDelay" -> SPIDelay
      [] f = "ClockPulse" -> ClockPulse
      [] f = "InitializeSPI" -> InitializeSPI
      [] f = "WriteByteSPI" -> WriteByteSPI(a[1])
      [] f = "WriteByteSPI_loop" -> WriteByteSPI_loop(a[1], a[2])
      [] f = "ReadByteSPI" -> ReadByteSPI(a[1])
      [] f = "ReadByteSPI_loop" -> ReadByteSPI_loop(a[1], a[2])
      [] f = "Read2BytesSPI" -> Read2BytesSPI(a[1], a[2])
      [] f = "Read2BytesSPI_loop" -> Read2BytesSPI_loop(a[1], a[2], a[3])
      [] f = "MCP3550_Read" -> MCP3550_Read
      [] f = "MCP3550_Read_ready" -> MCP3550_Read_ready
      [] f = "DAC1220_Reset" -> DAC1220_Reset
      [] f = "DAC1220_Write2Bytes" -> DAC1220_Write2Bytes(a[1], a[2], a[3])
      [] f = "DAC1220_Write3Bytes" -> DAC1220_Write3Bytes(a[1], a[2], a[3], a[4])
      [] f = "DAC1220_Read2Bytes" -> DAC1220_Read2Bytes(a[1], a[2], a[3])
      [] f = "DAC1220_Read3Bytes" -> DAC1220_Read3Bytes(a[1], a[2], a[3], a[4])
      [] f = "DAC1220_Init" -> DAC1220_Init
      [] f = "DAC1220_SelfCal" -> DAC1220_SelfCal
      [] f = "send_OK" -> send_OK
      [] f = "command_unknown" -> command_unknown
      [] f = "command_cell_on" -> command_cell_on
      [] f = "command_cell_off" -> command_cell_off
      [] f = "command_mode_potentiostatic" -> command_mode_potentiostatic
      [] f = "command_mode_galvanostatic" -> command_mode_galvanostatic
      [] f = "command_range1" -> command_range1
      [] f = "command_range2" -> command_range2
      [] f = "command_range3" -> command_range3
      [] f = "command_set_dac" -> command_set_dac(a)
      [] f = "command_calibrate_dac" -> command_calibrate_dac
      [] f = "command_read_adc" -> command_read_adc
      [] f = "command_read_offset" -> command_read_offset
      [] f = "command_save_offset" -> command_save_offset(a)
      [] f = "command_read_shuntcalibration" -> command_read_shuntcalibration
      [] f = "command_save_shuntcalibration" -> command_save_shuntcalibration(a)
      [] f = "command_read_dac_cal" -> command_read_dac_cal
      [] f = "command_set_dac_cal" -> command_set_dac_cal(a)
      [] f = "InitializeIO" -> InitializeIO

\* the operations still to do, with the calls at the front entered
RECURSIVE Enter(_)
Enter(q) ==
    IF q = <<>> THEN q
    ELSE IF Head(q).op = "call" THEN Enter(RoutineBody(Head(q).pin, Head(q).args) \o Tail(q))
    ELSE q

(***************************************************************************)
(* Levels of the bus lines.  A line follows the latch while the pin is an  *)
(* output; an undriven chip-select rests inactive (high), an undriven      *)
(* clock rests low.                                                        *)
(***************************************************************************)
\* direction bits (TRIS) and output latches (LAT) the firmware writes
DirPins == {"MODE_SW_TRIS", "CELL_ON_TRIS", "RANGE1_TRIS", "RANGE2_TRIS", "RANGE3_TRIS",
            "CS1_DIR", "CS2_DIR", "CLOCK_DIR", "DATA1_DIR", "DATA2_DIR"}

LatchPins == {"MODE_SW_PIN", "CELL_ON_PIN", "RANGE1_PIN", "RANGE2_PIN", "RANGE3_PIN",
              "CS1_LAT", "CS2_LAT", "CLOCK_LAT", "DATA1_LAT"}

Pins == DirPins \cup LatchPins

CS1Line(p) == IF p["CS1_DIR"] = OUTPUT THEN p["CS1_LAT"] ELSE HIGH
CS2Line(p) == IF p["CS2_DIR"] = OUTPUT THEN p["CS2_LAT"] ELSE HIGH
ClockLine(p) == IF p["CLOCK_DIR"] = OUTPUT THEN p["CLOCK_LAT"] ELSE LOW

(***************************************************************************)
(* DAC1220: sixteen byte-wide register addresses behind a serial interface *)
(* framed by CS1.  The first byte after CS1 falls is the command byte:     *)
(* bit 7 read/write, bits 6-5 byte count minus one, bits 3-0 the address   *)
(* (the firmware's 32+a, 64+a, 160+a, 192+a).  Input bits are taken on the *)
(* falling clock edge, output bits are presented on the rising edge, most  *)
(* significant bit first.                                                  *)
(***************************************************************************)
DacAddrs == 0..15

DacPowerOn ==
    [reg |-> [r \in DacAddrs |-> 0], phase |-> "idle", sh |-> 0, n |-> 0,
     addr |-> 0, left |-> 0, out |-> 0]

DacCS1Fall(d) == [d EXCEPT !.phase = "cmd", !.sh = 0, !.n = 0]

DacCS1Rise(d) == [d EXCEPT !.phase = "idle", !.sh = 0, !.n = 0, !.left = 0]

\* the byte v just completed in phase "cmd" is decoded
DacDecode(d, v) ==
    [d EXCEPT !.phase = IF BitOf(v, 7) = 1 THEN "rd" ELSE "wr",
              !.left = ((v \div 32) % 4) + 1,
              !.addr = v % 16,
              !.sh = 0, !.n = 0]

\* the byte v just completed in phase "wr" is stored
DacStore(d, v) ==
    [d EXCEPT !.reg = [d.reg EXCEPT ![d.addr] = v],
              !.addr = (d.addr + 1) % 16,
              !.left = d.left - 1,
              !.phase = IF d.left - 1 = 0 THEN "done" ELSE "wr",
              !.sh = 0, !.n = 0]

\* falling clock edge with CS1 low; b is the level of the data line
DacClockFall(d, b) ==
    IF d.phase \in {"cmd", "wr"}
    THEN LET v == (d.sh * 2 + b) % 256
         IN  IF d.n + 1 < 8 THEN [d EXCEPT !.sh = v, !.n = d.n + 1]
             ELSE IF d.phase = "cmd" THEN DacDecode(d, v)
             ELSE DacStore(d, v)
    ELSE d

\* rising clock edge with CS1 low
DacClockRise(d) ==
    IF d.phase = "rd"
    THEN LET o == BitOf(d.reg[d.addr], 7 - d.n)
         IN  IF d.n + 1 < 8 THEN [d EXCEPT !.out = o, !.n = d.n + 1]
             ELSE [d EXCEPT !.out = o, !.n = 0,
                            !.addr = (d.addr + 1) % 16,
                            !.left = d.left - 1,
                            !.phase = IF d.left - 1 = 0 THEN "rd_done" ELSE "rd"]
    ELSE d

DacDrives(p, d) == CS1Line(p) = LOW /\ d.phase \in {"rd", "rd_done"}

\* self-calibration: requested by mode bits 01 of the low command-register
\* byte (address 5); it needs the settling time the firmware waits for, then
\* the offset (8..10) and gain (12..14) registers hold the result and the
\* mode bits are back to normal
SelfCalMs == 500

SelfCalResults == { <<9, 8, 7, 6, 5, 4>>, <<127, 255, 254, 128, 1, 2>> }

DacSelfCalPending(d) == d.reg[5] % 4 = 1

DacSelfCalDone(d, r) ==
    [d EXCEPT !.reg = [a \in DacAddrs |->
                          IF a \in {8, 9, 10} THEN r[a - 7]
                          ELSE IF a \in {12, 13, 14} THEN r[a - 8]
                          ELSE IF a = 5 THEN d.reg[5] - 1
                          ELSE d.reg[a]]]

\* what a busy wait of c cycles lets the DAC do
DacAfterDelay(d, c) ==
    IF DacSelfCalPending(d) /\ c >= SelfCalMs * 1000 * CyclesPerUs
    THEN {DacSelfCalDone(d, r) : r \in SelfCalResults}
    ELSE {d}

(***************************************************************************)
(* The two MCP3550 behind CS2 (channel A on DATA1, channel B on DATA2),    *)
(* in single-conversion mode.  With CS2 low the data line is the ready     *)
(* flag (high while converting, low when a result waits); each falling     *)
(* clock edge then presents the next of 24 result bits, most significant   *)
(* first.  A falling CS2 edge after the result has been clocked out starts *)
(* the next conversion.                                                    *)
(***************************************************************************)
AdcSamples == { <<<<18, 52, 86>>, <<171, 205, 239>>>>,
                <<<<128, 0, 1>>, <<127, 255, 254>>>> }

AdcConverting ==
    [st |-> "converting", a |-> <<0, 0, 0>>, b |-> <<0, 0, 0>>, n |-> 0,
     o1 |-> 1, o2 |-> 1]

\* bit k (0 = first presented) of a 3-byte result
ResultBit(r, k) == BitOf(r[(k \div 8) + 1], 7 - (k % 8))

AdcCS2Fall(x) == IF x.st = "idle" THEN AdcConverting ELSE x

AdcCS2Rise(x) == IF x.st = "shifting" THEN [x EXCEPT !.st = "idle"] ELSE x

AdcPresent(x) ==
    [x EXCEPT !.st = IF x.n + 1 = 24 THEN "idle" ELSE "shifting",
              !.n = x.n + 1,
              !.o1 = ResultBit(x.a, x.n),
              !.o2 = ResultBit(x.b, x.n)]

\* falling clock edge with CS2 low: the possible successors
AdcClockFall(x) ==
    IF x.st = "ready"
    THEN {AdcPresent([x EXCEPT !.a = s[1], !.b = s[2], !.n = 0]) : s \in AdcSamples}
    ELSE IF x.st = "shifting" THEN {AdcPresent(x)}
    ELSE {x}

AdcOut1(x) == IF x.st = "converting" THEN 1 ELSE IF x.st = "ready" THEN 0 ELSE x.o1
AdcOut2(x) == IF x.st = "converting" THEN 1 ELSE IF x.st = "ready" THEN 0 ELSE x.o2

\* levels the DATA1 / DATA2 pins can show
Data1Levels(p, d, x) ==
    IF p["DATA1_DIR"] = OUTPUT THEN {p["DATA1_LAT"]}
    ELSE IF DacDrives(p, d) THEN {d.out}
    ELSE IF CS2Line(p) = LOW THEN {AdcOut1(x)}
    ELSE {LOW, HIGH}

Data2Levels(p, x) == IF CS2Line(p) = LOW THEN {AdcOut2(x)} ELSE {LOW, HIGH}

PinLevels(name, p, d, x) ==
    IF name = "DATA1_PIN" THEN Data1Levels(p, d, x) ELSE Data2Levels(p, x)

\* the converters' possible reactions to the pins going from p to q
Reactions(p, q, d, x) ==
    IF CS1Line(p) = HIGH /\ CS1Line(q) = LOW THEN {<<DacCS1Fall(d), x>>}
    ELSE IF CS1Line(p) = LOW /\ CS1Line(q) = HIGH THEN {<<DacCS1Rise(d), x>>}
    ELSE IF CS2Line(p) = HIGH /\ CS2Line(q) = LOW THEN {<<d, AdcCS2Fall(x)>>}
    ELSE IF CS2Line(p) = LOW /\ CS2Line(q) = HIGH THEN {<<d, AdcCS2Rise(x)>>}
    ELSE IF ClockLine(p) = LOW /\ ClockLine(q) = HIGH
        THEN {<<IF CS1Line(q) = LOW THEN DacClockRise(d) ELSE d, x>>}
    ELSE IF ClockLine(p) = HIGH /\ ClockLine(q) = LOW
        THEN { <<IF CS1Line(q) = LOW THEN DacClockFall(d, b) ELSE d, y>> :
                  b \in Data1Levels(q, d, x),
                  y \in (IF CS2Line(q) = LOW THEN AdcClockFall(x) ELSE {x}) }
    ELSE {<<d, x>>}

(***************************************************************************)
(* The calibration store (HEFlash.h), by its interface: for each row       *)
(* number the firmware passes, the 6-byte record a read of it returns.     *)
(* A read returns the record most recently written to the row.  How the    *)
(* library places records in the memory is not part of the model.          *)
(***************************************************************************)
ErasedRecord == <<255, 255, 255, 255, 255, 255>>

\* HEFLASH_readBlock(buffer, row, FLASH_ROWSIZE)
HEFLASH_readBlock(store, row) == store[row]

\* HEFLASH_writeBlock(row, data, 6)
HEFLASH_writeBlock(store, row, bytes) == [store EXCEPT ![row] = bytes]

\* contents of the store when the firmware starts: never written, or left
\* by an earlier session
InitStores ==
    { [r \in Rows |-> ErasedRecord],
      [r \in Rows |-> [i \in 1..6 |-> 16 * r + i]] }

\* what a read of each slot returns
StoredRecords(store) == [r \in Rows |-> HEFLASH_readBlock(store, r)]

(***************************************************************************)
(* Command buffers the host sends.                                         *)
(***************************************************************************)
DacValues == { <<18, 52, 86>>, <<128, 0, 1>> }

Records == { <<1, 2, 3, 4, 5, 6>>, <<165, 90, 0, 255, 128, 127>> }

PlainCommands ==
    { STR_CELL_ON, STR_CELL_OFF, STR_POTENTIOSTATIC, STR_GALVANOSTATIC,
      STR_RANGE_1, STR_RANGE_2, STR_RANGE_3, STR_DACCAL, STR_ADCREAD,
      STR_OFFSETREAD, STR_DACCALGET, STR_SHUNTCALREAD }

PayloadCommands ==
    { STR_DACSET \o v : v \in DacValues }
    \cup { STR_OFFSETSAVE \o r : r \in Records }
    \cup { STR_DACCALSET \o r : r \in Records }
    \cup { STR_SHUNTCALSAVE \o r : r \in Records }

\* buffers that are no command: empty, wrong case, truncated or extended
\* tokens, a number out of range, payloads one byte short or long
MalformedCommands ==
    { <<>>,
      <<99, 101, 108, 108, 32, 111, 110>>,
      SubSeq(STR_CELL_ON, 1, 6),
      STR_CELL_ON \o <<32>>,
      <<82, 65, 78, 71, 69, 32, 52>>,
      STR_DACSET \o <<18, 52>>,
      STR_DACSET \o <<18, 52, 86, 120>>,
      STR_OFFSETSAVE \o <<1, 2, 3, 4, 5>>,
      STR_DACCAL \o <<83, 69, 84>> }

HostBuffers == PlainCommands \cup PayloadCommands \cup MalformedCommands

(***************************************************************************)
(* Initial state: reset, main is about to call InitializeIO.  Every pin is *)
(* an input; the output latches hold whatever they held, the firmware has  *)
(* written none of them.                                                   *)
(***************************************************************************)
ResetPins ==
    { [q \in Pins |-> IF q \in DirPins THEN INPUT ELSE l[q]] :
         l \in [LatchPins -> {LOW, HIGH}] }

(***************************************************************************)
(* The command table of the interface (token, payload length) and what a   *)
(* host expects of each command.  Used by the observers only.              *)
(***************************************************************************)
HasPayload(buf, token, n) ==
    Len(buf) = Len(token) + n /\ SubSeq(buf, 1, Len(token)) = token

PayloadOf(buf, token) == SubSeq(buf, Len(token) + 1, Len(buf))

OkCommands ==
    { STR_CELL_ON, STR_CELL_OFF, STR_POTENTIOSTATIC, STR_GALVANOSTATIC,
      STR_RANGE_1, STR_RANGE_2, STR_RANGE_3, STR_DACCAL }

ReadCommands == { STR_OFFSETREAD, STR_DACCALGET, STR_SHUNTCALREAD }

IsSave(buf) ==
    \/ HasPayload(buf, STR_OFFSETSAVE, 6)
    \/ HasPayload(buf, STR_DACCALSET, 6)
    \/ HasPayload(buf, STR_SHUNTCALSAVE, 6)

Recognized(buf) ==
    \/ buf \in OkCommands \cup ReadCommands \cup {STR_ADCREAD}
    \/ HasPayload(buf, STR_DACSET, 3)
    \/ IsSave(buf)

\* the row a read command reads, the row and record a save command writes
ReadRow(buf) ==
    IF buf = STR_OFFSETREAD THEN OffsetRow
    ELSE IF buf = STR_DACCALGET THEN DacCalRow
    ELSE ShuntCalRow

SaveRow(buf) ==
    IF HasPayload(buf, STR_OFFSETSAVE, 6) THEN OffsetRow
    ELSE IF HasPayload(buf, STR_DACCALSET, 6) THEN DacCalRow
    ELSE ShuntCalRow

SaveRecord(buf) ==
    IF HasPayload(buf, STR_OFFSETSAVE, 6) THEN PayloadOf(buf, STR_OFFSETSAVE)
    ELSE IF HasPayload(buf, STR_DACCALSET, 6) THEN PayloadOf(buf, STR_DACCALSET)
    ELSE PayloadOf(buf, STR_SHUNTCALSAVE)

\* record last written to each row as the host knows it; <<>> once DACCAL
\* has stored whatever the DAC computed
WrittenAfter(w, buf) ==
    IF IsSave(buf) THEN [w EXCEPT ![SaveRow(buf)] = SaveRecord(buf)]
    ELSE IF buf = STR_DACCAL THEN [w EXCEPT ![DacCalRow] = <<>>]
    ELSE w

\* the instrument state the host has asked for
ExpectAfter(e, buf) ==
    IF buf = STR_CELL_ON THEN [e EXCEPT !.cell = CELL_ON]
    ELSE IF buf = STR_CELL_OFF THEN [e EXCEPT !.cell = CELL_OFF]
    ELSE IF buf = STR_POTENTIOSTATIC THEN [e EXCEPT !.mode = POTENTIOSTATIC]
    ELSE IF buf = STR_GALVANOSTATIC THEN [e EXCEPT !.mode = GALVANOSTATIC]
    ELSE IF buf = STR_RANGE_1 THEN [e EXCEPT !.range = 1]
    ELSE IF buf = STR_RANGE_2 THEN [e EXCEPT !.range = 2]
    ELSE IF buf = STR_RANGE_3 THEN [e EXCEPT !.range = 3]
    ELSE e

BootExpect == [cell |-> CELL_OFF, mode |-> POTENTIOSTATIC, range |-> 1]

RangePins == {"RANGE1_PIN", "RANGE2_PIN", "RANGE3_PIN"}

\* the relay settling time of the range commands
SettleMs == 10

\* observers of the command in progress: ready polls, the level polled and
\* the level of CS2 at the poll, clock pulses, CS2 falling edges, reply
\* assignments, the range output asserted and whether the settling time has
\* passed since, the levels sampled on DATA1_PIN and on DATA2_PIN, the
\* cycles the clock has been high in the last pulse, CS1 falling edges,
\* whether a self-calibration was requested and then waited for, clock
\* rises with both chip-selects high
NoCommandObs ==
    [polls |-> 0, rdy |-> "none", pollcs2 |-> HIGH, clk |-> 0, cs2falls |-> 0,
     replies |-> 0, made |-> "", settled |-> FALSE, s1 |-> <<>>, s2 |-> <<>>,
     width |-> 0, cs1falls |-> 0, calwait |-> "none", idleclk |-> 0]

InitObs(store) ==
    [delivered |-> 0, dropped |-> 0, interpreted |-> 0, sent |-> 0,
     prev |-> <<>>, written |-> StoredRecords(store), expect |-> BootExpect,
     cmd |-> NoCommandObs]

InitUsb ==
    [configured |-> FALSE, out |-> "off", out_buf |-> <<>>,
     in_busy |-> FALSE, in_halted |-> FALSE, in_sent |-> <<>>]

Init ==
    /\ pc = "InitializeIO"
    /\ todo = Enter(InitializeIO)
    /\ pin \in ResetPins
    /\ data = Zeros6
    /\ data_ready = 0
    /\ heflashbuffer = Zeros6
    /\ received_data = <<>>
    /\ received_data_length = 0
    /\ transmit_data = Zeros6
    /\ transmit_data_length = 0
    /\ heflash \in InitStores
    /\ dac = DacPowerOn
    /\ adc = AdcConverting
    /\ usb = InitUsb
    /\ obs = InitObs(heflash)

(***************************************************************************)
(* Execution of the operation at the head of todo.                         *)
(***************************************************************************)
Running == pc \in {"InitializeIO", "exec"} /\ todo # <<>>

\* the routine in progress goes on with the operations q; when none is
\* left, InitializeIO returns to main before usb_init, a command handler
\* returns through interpret_command to main before usb_send_in_buffer
Continue(q) ==
    /\ todo' = Enter(q)
    /\ pc' = IF Enter(q) # <<>> THEN pc
             ELSE IF pc = "InitializeIO" THEN "usb_init" ELSE "send"

ObsCmd(f) == [obs EXCEPT !.cmd = f]

ExecSet ==
    /\ Running /\ Head(todo).op = "set"
    /\ LET o == Head(todo)
           q == [pin EXCEPT ![o.pin] = o.val]
       IN  /\ pin' = q
           /\ \E r \in Reactions(pin, q, dac, adc) : dac' = r[1] /\ adc' = r[2]
           /\ obs' = ObsCmd([obs.cmd EXCEPT
                        !.clk = IF ClockLine(pin) = LOW /\ ClockLine(q) = HIGH
                                THEN @ + 1 ELSE @,
                        !.cs2falls = IF CS2Line(pin) = HIGH /\ CS2Line(q) = LOW
                                     THEN @ + 1 ELSE @,
                        !.cs1falls = IF CS1Line(pin) = HIGH /\ CS1Line(q) = LOW
                                     THEN @ + 1 ELSE @,
                        !.width = IF ClockLine(pin) = LOW /\ ClockLine(q) = HIGH
                                  THEN 0 ELSE @,
                        !.idleclk = IF /\ ClockLine(pin) = LOW /\ ClockLine(q) = HIGH
                                       /\ CS1Line(q) = HIGH /\ CS2Line(q) = HIGH
                                    THEN @ + 1 ELSE @,
                        !.calwait = IF DacSelfCalPending(dac') /\ ~DacSelfCalPending(dac)
                                    THEN "requested" ELSE @,
                        !.made = IF o.pin \in RangePins /\ o.val = 1 THEN o.pin ELSE @,
                        !.settled = IF o.pin \in RangePins /\ o.val = 1 THEN FALSE ELSE @])
    /\ Continue(Tail(todo))
    /\ UNCHANGED <<data, data_ready, heflashbuffer, received_data, received_data_length,
                   transmit_data, transmit_data_length, heflash, usb>>

ExecDelay ==
    /\ Running /\ Head(todo).op = "delay"
    /\ dac' \in DacAfterDelay(dac, Head(todo).val)
    /\ obs' = ObsCmd([obs.cmd EXCEPT
                 !.width = IF ClockLine(pin) = HIGH THEN @ + Head(todo).val ELSE @,
                 !.calwait = IF @ = "requested"
                                /\ Head(todo).val >= SelfCalMs * 1000 * CyclesPerUs
                             THEN "waited" ELSE @,
                 !.settled = IF obs.cmd.made # ""
                                /\ Head(todo).val >= SettleMs * 1000 * CyclesPerUs
                             THEN TRUE ELSE @])
    /\ Continue(Tail(todo))
    /\ UNCHANGED <<pin, data, data_ready, heflashbuffer, received_data,
                   received_data_length, transmit_data, transmit_data_length,
                   heflash, adc, usb>>

ExecCallV ==
    /\ Running /\ Head(todo).op = "callv"
    /\ Head(todo).pin = "InitializeIO_apply_calibration"
    /\ Continue(InitializeIO_apply_calibration \o Tail(todo))
    /\ UNCHANGED <<pin, data, data_ready, heflashbuffer, received_data,
                   received_data_length, transmit_data, transmit_data_length,
                   heflash, dac, adc, usb, obs>>

ExecClear ==
    /\ Running /\ Head(todo).op = "clear"
    /\ data' = [data EXCEPT ![Head(todo).val] = 0]
    /\ Continue(Tail(todo))
    /\ UNCHANGED <<pin, data_ready, heflashbuffer, received_data,
                   received_data_length, transmit_data, transmit_data_length,
                   heflash, dac, adc, usb, obs>>

ExecShift ==
    /\ Running /\ Head(todo).op = "shift"
    /\ data' = [data EXCEPT ![Head(todo).val] = ClearBit0(Shl1(@))]
    /\ Continue(Tail(todo))
    /\ UNCHANGED <<pin, data_ready, heflashbuffer, received_data,
                   received_data_length, transmit_data, transmit_data_length,
                   heflash, dac, adc, usb, obs>>

ExecSample ==
    /\ Running /\ Head(todo).op = "sample"
    /\ \E b \in PinLevels(Head(todo).pin, pin, dac, adc) :
          /\ data' = [data EXCEPT ![Head(todo).val] = IF b = 1 THEN SetBit0(@) ELSE @]
          /\ obs' = ObsCmd([obs.cmd EXCEPT
                       !.s1 = IF Head(todo).pin = "DATA1_PIN" THEN Append(@, b) ELSE @,
                       !.s2 = IF Head(todo).pin = "DATA2_PIN" THEN Append(@, b) ELSE @])
    /\ Continue(Tail(todo))
    /\ UNCHANGED <<pin, data_ready, heflashbuffer, received_data,
                   received_data_length, transmit_data, transmit_data_length,
                   heflash, dac, adc, usb>>

ExecSetReady ==
    /\ Running /\ Head(todo).op = "set_ready"
    /\ data_ready' = Head(todo).val
    /\ Continue(Tail(todo))
    /\ UNCHANGED <<pin, data, heflashbuffer, received_data,
                   received_data_length, transmit_data, transmit_data_length,
                   heflash, dac, adc, usb, obs>>

ExecIfReady ==
    /\ Running /\ Head(todo).op = "if_ready"
    /\ \E b \in PinLevels("DATA1_PIN", pin, dac, adc) :
          /\ Continue(IF b = LOW
                      THEN <<Call("MCP3550_Read_ready", <<>>)>> \o Tail(todo)
                      ELSE Tail(todo))
          /\ obs' = ObsCmd([obs.cmd EXCEPT !.polls = @ + 1,
                                           !.rdy = IF b = LOW THEN "low" ELSE "high",
                                           !.pollcs2 = CS2Line(pin)])
    /\ UNCHANGED <<pin, data, data_ready, heflashbuffer, received_data,
                   received_data_length, transmit_data, transmit_data_length,
                   heflash, dac, adc, usb>>

ExecReplyStr ==
    /\ Running /\ Head(todo).op = "reply_str"
    /\ transmit_data' = strcpy(transmit_data, Head(todo).args)
    /\ transmit_data_length' = Len(Head(todo).args)
    /\ obs' = ObsCmd([obs.cmd EXCEPT !.replies = @ + 1])
    /\ Continue(Tail(todo))
    /\ UNCHANGED <<pin, data, data_ready, heflashbuffer, received_data,
                   received_data_length, heflash, dac, adc, usb>>

ExecReplyHef ==
    /\ Running /\ Head(todo).op = "reply_hef"
    /\ transmit_data_length' = Head(todo).val
    /\ transmit_data' = memcpy(transmit_data, heflashbuffer, Head(todo).val)
    /\ obs' = ObsCmd([obs.cmd EXCEPT !.replies = @ + 1])
    /\ Continue(Tail(todo))
    /\ UNCHANGED <<pin, data, data_ready, heflashbuffer, received_data,
                   received_data_length, heflash, dac, adc, usb>>

ExecReplyAdc ==
    /\ Running /\ Head(todo).op = "reply_adc"
    /\ IF data_ready # 0
       THEN /\ transmit_data_length' = Head(todo).val
            /\ transmit_data' = memcpy(transmit_data, data, Head(todo).val)
       ELSE /\ transmit_data' = strcpy(transmit_data, STR_WAIT)
            /\ transmit_data_length' = Len(STR_WAIT)
    /\ obs' = ObsCmd([obs.cmd EXCEPT !.replies = @ + 1])
    /\ Continue(Tail(todo))
    /\ UNCHANGED <<pin, data, data_ready, heflashbuffer, received_data,
                   received_data_length, heflash, dac, adc, usb>>

ExecHefRead ==
    /\ Running /\ Head(todo).op = "hef_read"
    /\ heflashbuffer' = HEFLASH_readBlock(heflash, Head(todo).val)
    /\ Continue(Tail(todo))
    /\ UNCHANGED <<pin, data, data_ready, received_data, received_data_length,
                   transmit_data, transmit_data_length, heflash, dac, adc, usb, obs>>

\* HEFLASH_writeBlock(row, bytes, 6): the bytes are those of the command
ExecHefWrite ==
    /\ Running /\ Head(todo).op = "hef_write"
    /\ heflash' = HEFLASH_writeBlock(heflash, Head(todo).val, Head(todo).args)
    /\ Continue(Tail(todo))
    /\ UNCHANGED <<pin, data, data_ready, heflashbuffer, received_data,
                   received_data_length, transmit_data, transmit_data_length,
                   dac, adc, usb, obs>>

\* HEFLASH_writeBlock(2, data, 6): the bytes are those data holds now
ExecHefWriteData ==
    /\ Running /\ Head(todo).op = "hef_write_data"
    /\ heflash' = HEFLASH_writeBlock(heflash, Head(todo).val, data)
    /\ Continue(Tail(todo))
    /\ UNCHANGED <<pin, data, data_ready, heflashbuffer, received_data,
                   received_data_length, transmit_data, transmit_data_length,
                   dac, adc, usb, obs>>

(***************************************************************************)
(* main: usb_init and the polling loop.                                    *)
(***************************************************************************)
UsbInit ==
    /\ pc = "usb_init"
    /\ pc' = "loop"
    /\ UNCHANGED <<todo, pin, data, data_ready, heflashbuffer, received_data,
                   received_data_length, transmit_data, transmit_data_length,
                   heflash, dac, adc, usb, obs>>

\* if (usb_is_configured() && usb_out_endpoint_has_data(1))
PollOut ==
    /\ pc = "loop"
    /\ usb.configured /\ usb.out = "data"
    /\ pc' = "check_halted"
    /\ UNCHANGED <<todo, pin, data, data_ready, heflashbuffer, received_data,
                   received_data_length, transmit_data, transmit_data_length,
                   heflash, dac, adc, usb, obs>>

\* (mutant) the halted test without its negation
CheckHalted_inverted ==
    /\ pc = "check_halted"
    /\ IF usb.in_halted
       THEN pc' = "wait_in" /\ obs' = obs
       ELSE pc' = "arm" /\ obs' = [obs EXCEPT !.dropped = @ + 1]
    /\ UNCHANGED <<todo, pin, data, data_ready, heflashbuffer, received_data,
                   received_data_length, transmit_data, transmit_data_length,
                   heflash, dac, adc, usb>>

\* if (!usb_in_endpoint_halted(1)) { ... }
CheckHalted ==
    /\ pc = "check_halted"
    /\ IF ~usb.in_halted
       THEN pc' = "wait_in" /\ obs' = obs
       ELSE pc' = "arm" /\ obs' = [obs EXCEPT !.dropped = @ + 1]
    /\ UNCHANGED <<todo, pin, data, data_ready, heflashbuffer, received_data,
                   received_data_length, transmit_data, transmit_data_length,
                   heflash, dac, adc, usb>>

\* while (usb_in_endpoint_busy(1)) ;  then the two buffer look-ups
GetBuffers ==
    /\ pc = "wait_in"
    /\ ~usb.in_busy
    /\ received_data' = usb.out_buf
    /\ received_data_length' = Len(usb.out_buf)
    /\ pc' = "interpret"
    /\ obs' = [obs EXCEPT !.prev = received_data]
    /\ UNCHANGED <<todo, pin, data, data_ready, heflashbuffer,
                   transmit_data, transmit_data_length,
                   heflash, dac, adc, usb>>

\* interpret_command();  entered
InterpretCommand ==
    /\ pc = "interpret"
    /\ todo' = Enter(interpret_command)
    /\ pc' = IF Enter(interpret_command) # <<>> THEN "exec" ELSE "send"
    /\ obs' = [obs EXCEPT !.interpreted = @ + 1,
                          !.written = WrittenAfter(@, received_data),
                          !.expect = ExpectAfter(@, received_data),
                          !.cmd = NoCommandObs]
    /\ UNCHANGED <<pin, data, data_ready, heflashbuffer, received_data,
                   received_data_length, transmit_data, transmit_data_length,
                   heflash, dac, adc, usb>>

\* usb_send_in_buffer(1, transmit_data_length);
SendInBuffer ==
    /\ pc = "send"
    /\ usb' = [usb EXCEPT !.in_busy = TRUE,
                          !.in_sent = SubSeq(transmit_data, 1, transmit_data_length)]
    /\ obs' = [obs EXCEPT !.sent = @ + 1]
    /\ pc' = "arm"
    /\ UNCHANGED <<todo, pin, data, data_ready, heflashbuffer, received_data,
                   received_data_length, transmit_data, transmit_data_length,
                   heflash, dac, adc>>

\* usb_arm_out_endpoint(1);  the handler's locals are dead by now
ArmOutEndpoint ==
    /\ pc = "arm"
    /\ usb' = [usb EXCEPT !.out = "armed"]
    /\ pc' = "loop"
    /\ data' = Zeros6
    /\ data_ready' = 0
    /\ obs' = ObsCmd(NoCommandObs)
    /\ UNCHANGED <<todo, pin, heflashbuffer, received_data,
                   received_data_length, transmit_data, transmit_data_length,
                   heflash, dac, adc>>

(***************************************************************************)
(* The environment: the USB host and the converters.  The USB stack is     *)
(* served by interrupts, enabled before usb_init (lines 360-364): once     *)
(* usb_init has run the host's requests take effect between any two        *)
(* statements of main and of the handlers.                                 *)
(***************************************************************************)
UsbUp == pc \notin {"InitializeIO", "usb_init"}

HostConfigure ==
    /\ UsbUp
    /\ ~usb.configured
    /\ usb' = [usb EXCEPT !.configured = TRUE, !.out = "armed"]
    /\ UNCHANGED <<pc, todo, pin, data, data_ready, heflashbuffer, received_data,
                   received_data_length, transmit_data, transmit_data_length,
                   heflash, dac, adc, obs>>

HostSend ==
    /\ UsbUp
    /\ usb.configured /\ usb.out = "armed"
    /\ obs.delivered < MaxCmds
    /\ \E buf \in HostBuffers : usb' = [usb EXCEPT !.out = "data", !.out_buf = buf]
    /\ obs' = [obs EXCEPT !.delivered = @ + 1]
    /\ UNCHANGED <<pc, todo, pin, data, data_ready, heflashbuffer, received_data,
                   received_data_length, transmit_data, transmit_data_length,
                   heflash, dac, adc>>

HostRead ==
    /\ UsbUp
    /\ usb.in_busy
    /\ usb' = [usb EXCEPT !.in_busy = FALSE]
    /\ UNCHANGED <<pc, todo, pin, data, data_ready, heflashbuffer, received_data,
                   received_data_length, transmit_data, transmit_data_length,
                   heflash, dac, adc, obs>>

HostSetHalt ==
    /\ UsbUp
    /\ usb.configured /\ ~usb.in_halted
    /\ usb' = [usb EXCEPT !.in_halted = TRUE]
    /\ UNCHANGED <<pc, todo, pin, data, data_ready, heflashbuffer, received_data,
                   received_data_length, transmit_data, transmit_data_length,
                   heflash, dac, adc, obs>>

HostClearHalt ==
    /\ UsbUp
    /\ usb.in_halted
    /\ usb' = [usb EXCEPT !.in_halted = FALSE]
    /\ UNCHANGED <<pc, todo, pin, data, data_ready, heflashbuffer, received_data,
                   received_data_length, transmit_data, transmit_data_length,
                   heflash, dac, adc, obs>>

ConversionDone ==
    /\ adc.st = "converting"
    /\ adc' = [adc EXCEPT !.st = "ready"]
    /\ UNCHANGED <<pc, todo, pin, data, data_ready, heflashbuffer, received_data,
                   received_data_length, transmit_data, transmit_data_length,
                   heflash, dac, usb, obs>>

Next ==
    \/ ExecSet \/ ExecDelay \/ ExecCallV \/ ExecClear \/ ExecShift \/ ExecSample
    \/ ExecSetReady \/ ExecIfReady \/ ExecReplyStr \/ ExecReplyHef \/ ExecReplyAdc
    \/ ExecHefRead \/ ExecHefWrite \/ ExecHefWriteData
    \/ UsbInit \/ PollOut \/ CheckHalted \/ GetBuffers \/ InterpretCommand
    \/ SendInBuffer \/ ArmOutEndpoint
    \/ HostConfigure \/ HostSend \/ HostRead \/ HostSetHalt \/ HostClearHalt
    \/ ConversionDone

Spec == Init /\ [][Next]_vars

(***************************************************************************)
(* Register read-back: DACSET with a 3-byte value, then DAC1220_Read3Bytes *)
(* of address 0 into data[1..3], on an initialised bus.                    *)
(***************************************************************************)
ReadbackBytes == {0, 18, 52, 86, 129, 255}

ReadbackValues == { <<x, y, z>> : x \in ReadbackBytes, y \in ReadbackBytes, z \in ReadbackBytes }

\* the pins after the assignments of a straight-line routine
RECURSIVE PinsAfter(_, _)
PinsAfter(p, ops) ==
    IF ops = <<>> THEN p
    ELSE PinsAfter([p EXCEPT ![Head(ops).pin] = Head(ops).val], Tail(ops))

\* the pins when InitializeSPI has returned, for every reset state
BootPins == { PinsAfter(p, InitializeIO_outputs \o InitializeSPI) : p \in ResetPins }

InitReadback ==
    /\ pc = "exec"
    /\ \E v \in ReadbackValues :
          /\ received_data = STR_DACSET \o v
          /\ todo = Enter(interpret_command_on(STR_DACSET \o v, 10)
                          \o <<Call("DAC1220_Read3Bytes", <<0, 1, 2, 3>>)>>)
    /\ received_data_length = 10
    /\ pin \in BootPins
    /\ data = Zeros6
    /\ data_ready = 0
    /\ heflashbuffer = Zeros6
    /\ transmit_data = Zeros6
    /\ transmit_data_length = 0
    /\ heflash \in InitStores
    /\ dac = DacPowerOn
    /\ adc = AdcConverting
    /\ usb = InitUsb
    /\ obs = InitObs(heflash)

NextReadback == ExecSet \/ ExecDelay \/ ExecClear \/ ExecShift \/ ExecSample \/ ExecReplyStr

SpecReadback == InitReadback /\ [][NextReadback]_vars

(***************************************************************************)
(* One byte written: WriteByteSPI(data[1]) inside a DAC write, CS1 low and *)
(* DATA1 an output.                                                        *)
(***************************************************************************)
InitWriteByte ==
    /\ pc = "exec"
    /\ \E v \in Byte :
          /\ data = [Zeros6 EXCEPT ![1] = v]
          /\ todo = Enter(<<Call("WriteByteSPI", <<v>>)>>)
    /\ pin \in { PinsAfter(p, <<Set("CS1_LAT", LOW), Set("DATA1_DIR", OUTPUT)>>) :
                    p \in BootPins }
    /\ data_ready = 0
    /\ heflashbuffer = Zeros6
    /\ received_data = <<>>
    /\ received_data_length = 0
    /\ transmit_data = Zeros6
    /\ transmit_data_length = 0
    /\ heflash \in InitStores
    /\ dac = DacCS1Fall(DacPowerOn)
    /\ adc = AdcConverting
    /\ usb = InitUsb
    /\ obs = InitObs(heflash)

NextWriteByte == ExecSet \/ ExecDelay

SpecWriteByte == InitWriteByte /\ [][NextWriteByte]_vars

(***************************************************************************)
(* Properties.                                                             *)
(***************************************************************************)
\* the reply as it is handed to the host
Reply == SubSeq(transmit_data, 1, transmit_data_length)

\* the direction bit of an instrument pin
TrisOf(q) ==
    CASE q = "MODE_SW_PIN" -> "MODE_SW_TRIS"
      [] q = "CELL_ON_PIN" -> "CELL_ON_TRIS"
      [] q = "RANGE1_PIN" -> "RANGE1_TRIS"
      [] q = "RANGE2_PIN" -> "RANGE2_TRIS"
      [] q = "RANGE3_PIN" -> "RANGE3_TRIS"

\* the pin is an output and drives the level v
Drives(p, q, v) == p[TrisOf(q)] = OUTPUT /\ p[q] = v

\* number of Range outputs asserted
RangeCount ==
    (IF Drives(pin, "RANGE1_PIN", 1) THEN 1 ELSE 0)
    + (IF Drives(pin, "RANGE2_PIN", 1) THEN 1 ELSE 0)
    + (IF Drives(pin, "RANGE3_PIN", 1) THEN 1 ELSE 0)

\* InitializeIO is still setting up the instrument pins (lines 155-164)
InPinSetup ==
    /\ pc = "InitializeIO"
    /\ todo # <<>>
    /\ Head(todo).op = "set"
    /\ Head(todo).pin \in {"MODE_SW_PIN", "CELL_ON_PIN"} \cup RangePins
                          \cup {TrisOf(q) : q \in {"MODE_SW_PIN", "CELL_ON_PIN"} \cup RangePins}

AtBoundary == pc \in {"usb_init", "loop", "check_halted", "wait_in", "interpret", "send", "arm"}

\* C1: while a buffer that is no table entry (token and exact total length)
\* is interpreted, no step changes a pin (Mode, Cell, Range outputs and bus
\* lines), the DAC or a calibration row, and the handler returns with the
\* reply "?" of length 1.
C1_UnknownReplyNoChange ==
    [][ (pc \in {"interpret", "exec"} /\ ~Recognized(received_data))
        => /\ pin' = pin
           /\ dac' = dac
           /\ heflash' = heflash
           /\ pc' \in {"interpret", "exec", "send"}
           /\ (pc' = "send" => /\ transmit_data_length' = 1
                               /\ SubSeq(transmit_data', 1, transmit_data_length') = STR_UNKNOWN)
      ]_vars

\* a recognized token one byte too long has been answered "?"
C1_Witness ==
    /\ pc = "send"
    /\ received_data = STR_CELL_ON \o <<32>>
    /\ Reply = STR_UNKNOWN

\* C2 as stated: exactly one Range output is asserted in every reachable
\* state, the intermediate states of a RANGE n command included (taken here
\* from the end of the pin setup of InitializeIO on).
C2_ExactlyOneInEveryState == ~InPinSetup => RangeCount = 1

\* C2 amended: once InitializeIO has set up the instrument pins, exactly
\* one Range output is asserted outside a RANGE n command; inside a RANGE n
\* command one or two are asserted (the new one together with the previous
\* one), never none and never all three.  (During the pin setup the Range
\* pins are inputs or drive their reset latch values: see C3.)
C2_OneAtBoundaryTwoOnlyInTransit ==
    ~InPinSetup =>
       /\ RangeCount \in {1, 2}
       /\ RangeCount = 2 =>
             /\ pc = "exec"
             /\ received_data \in {STR_RANGE_1, STR_RANGE_2, STR_RANGE_3}

\* RANGE 2 in its settling delay with range 1 still asserted
C2_Witness ==
    /\ pc = "exec"
    /\ received_data = STR_RANGE_2
    /\ pin["RANGE1_PIN"] = 1 /\ pin["RANGE2_PIN"] = 1 /\ pin["RANGE3_PIN"] = 0
    /\ RangeCount = 2

\* C3: a RANGE n command deasserts a Range output only after it has
\* asserted another one, has let the settling delay pass since, and still
\* asserts it; and in no state, from boot onward, do the three Range pins
\* all drive their outputs deasserted.
C3_MakeBeforeBreak ==
    /\ [](~(\A r \in RangePins : Drives(pin, r, 0)))
    /\ [][ \A r \in RangePins :
              (pc = "exec" /\ pin[r] = 1 /\ pin'[r] = 0)
              => /\ obs.cmd.made \in RangePins \ {r}
                 /\ obs.cmd.settled
                 /\ pin[obs.cmd.made] = 1
         ]_vars

\* C4: a calibration read replies with the 6 bytes last saved to its row
\* (whatever was saved to the other rows in between), and every row holds
\* the record last saved to it.  A row whose last writer is DACCAL holds the
\* DAC's own result and is not constrained here.
C4_ReadReturnsLastSaved ==
    pc = "send" =>
       /\ \A r \in Rows : obs.written[r] # <<>> => HEFLASH_readBlock(heflash, r) = obs.written[r]
       /\ (received_data \in ReadCommands /\ obs.written[ReadRow(received_data)] # <<>>)
          => /\ transmit_data_length = 6
             /\ Reply = obs.written[ReadRow(received_data)]

\* OFFSETREAD right after OFFSETSAVE 1 2 3 4 5 6 replies those bytes
C4_Witness ==
    /\ pc = "send"
    /\ received_data = STR_OFFSETREAD
    /\ obs.prev = STR_OFFSETSAVE \o <<1, 2, 3, 4, 5, 6>>
    /\ Reply = <<1, 2, 3, 4, 5, 6>>

\* C5: ADCREAD samples the ready line exactly once, with CS2 low, and
\* replies "WAIT" if it was high and the 6 bytes it read if it was low.
C5_AdcReadPollsOnce ==
    (pc = "send" /\ received_data = STR_ADCREAD) =>
       /\ obs.cmd.polls = 1
       /\ obs.cmd.pollcs2 = LOW
       /\ \/ obs.cmd.rdy = "high" /\ transmit_data_length = 4 /\ Reply = STR_WAIT
          \/ obs.cmd.rdy = "low" /\ transmit_data_length = 6 /\ Reply = data

\* an ADCREAD that found the line low replies 6 bytes
C5_Witness ==
    /\ pc = "send"
    /\ received_data = STR_ADCREAD
    /\ obs.cmd.rdy = "low"
    /\ transmit_data_length = 6

\* C6: after DACSET b the DAC's registers 0..2 hold b in order, and
\* DAC1220_Read3Bytes of address 0 returns b.
C6_DacsetReadback ==
    pc = "send" =>
       /\ <<dac.reg[0], dac.reg[1], dac.reg[2]>> = PayloadOf(received_data, STR_DACSET)
       /\ SubSeq(data, 1, 3) = PayloadOf(received_data, STR_DACSET)

\* the value 18 52 86 has been written and read back
C6_Witness ==
    /\ pc = "send"
    /\ received_data = STR_DACSET \o <<18, 52, 86>>
    /\ SubSeq(data, 1, 3) = <<18, 52, 86>>

\* C7: outside a handler the Cell and Mode outputs carry the value of the
\* last CELL / mode command (boot: Off, Potentiostatic) and exactly the
\* Range output of the last RANGE n (boot: 1) is asserted.
C7_OutputsFollowLastCommand ==
    AtBoundary =>
       /\ Drives(pin, "CELL_ON_PIN", obs.expect.cell)
       /\ Drives(pin, "MODE_SW_PIN", obs.expect.mode)
       /\ Drives(pin, "RANGE1_PIN", IF obs.expect.range = 1 THEN 1 ELSE 0)
       /\ Drives(pin, "RANGE2_PIN", IF obs.expect.range = 2 THEN 1 ELSE 0)
       /\ Drives(pin, "RANGE3_PIN", IF obs.expect.range = 3 THEN 1 ELSE 0)

\* CELL ON then CELL OFF: the Cell output is off
C7_Witness ==
    /\ pc = "loop"
    /\ obs.prev = STR_CELL_ON
    /\ received_data = STR_CELL_OFF
    /\ pin["CELL_ON_PIN"] = CELL_OFF

\* C8: when interpret_command returns, the reply length has been assigned
\* during this call, is 1, 2, 4 or 6, and the reply has the form the
\* command table gives for the buffer.
C8_ReplyForm ==
    pc = "send" =>
       /\ obs.cmd.replies >= 1
       /\ transmit_data_length \in {1, 2, 4, 6}
       /\ IF received_data \in OkCommands \/ HasPayload(received_data, STR_DACSET, 3)
             \/ IsSave(received_data)
          THEN Reply = STR_OK
          ELSE IF received_data \in ReadCommands THEN transmit_data_length = 6
          ELSE IF received_data = STR_ADCREAD
               THEN transmit_data_length = 6 \/ Reply = STR_WAIT
          ELSE Reply = STR_UNKNOWN

\* DACCAL has run to its end and replied OK
C8_Witness ==
    /\ pc = "send"
    /\ received_data = STR_DACCAL
    /\ obs.cmd.replies = 1
    /\ Reply = STR_OK

\* what C9 says of the order of events, whatever becomes of a buffer:
\* replies never outnumber interpreted commands nor these the delivered
\* buffers; a reply is outstanding only while the handler runs or has just
\* returned, with the OUT endpoint not yet re-armed; the reply is sent with
\* the handler finished.
C9_Order ==
    /\ obs.sent <= obs.interpreted
    /\ obs.interpreted <= obs.sent + 1
    /\ obs.interpreted + obs.dropped <= obs.delivered
    /\ obs.delivered <= obs.interpreted + obs.dropped + 1
    /\ obs.interpreted = obs.sent + 1 => pc \in {"exec", "send"} /\ usb.out = "data"
    /\ pc = "send" => todo = <<>>
    /\ pc = "arm" => usb.out = "data"

\* C9 as stated: every delivered buffer is interpreted once and answered
\* once: when the loop waits with the OUT endpoint armed, as many commands
\* were interpreted and as many replies sent as buffers were delivered.
C9_EveryBufferInterpretedAndAnswered ==
    /\ C9_Order
    /\ (pc = "loop" /\ usb.out = "armed") =>
          obs.interpreted = obs.delivered /\ obs.sent = obs.delivered

\* C9 amended: main tests the halt state of the IN endpoint once per
\* buffer (line 370).  A buffer for which the test finds the endpoint halted
\* is discarded, neither interpreted nor answered, and the OUT endpoint is
\* re-armed; every other delivered buffer is interpreted once and answered
\* by one usb_send_in_buffer, whatever the host does to the halt state after
\* the test, in the order of C9.
C9_InterpretedAndAnsweredUnlessHalted ==
    /\ [](C9_Order)
    /\ []((pc = "arm" \/ (pc = "loop" /\ usb.out = "armed")) =>
             /\ obs.interpreted + obs.dropped = obs.delivered
             /\ obs.sent = obs.interpreted)
    /\ [][ (pc = "check_halted" /\ pc' # pc) =>
              IF usb.in_halted
              THEN /\ pc' = "arm"
                   /\ obs'.dropped = obs.dropped + 1
                   /\ obs'.interpreted = obs.interpreted
              ELSE /\ pc' = "wait_in"
                   /\ obs'.dropped = obs.dropped ]_vars
    /\ [][ /\ obs'.dropped # obs.dropped => pc = "check_halted"
           /\ obs'.interpreted # obs.interpreted
              => pc = "interpret" /\ obs'.interpreted = obs.interpreted + 1
           /\ obs'.sent # obs.sent
              => pc = "send" /\ obs'.sent = obs.sent + 1 /\ pc' = "arm"
           /\ (pc = "wait_in" /\ pc' # pc) => pc' = "interpret"
           /\ (pc = "interpret" /\ pc' # pc) => obs'.interpreted = obs.interpreted + 1
           /\ (pc = "arm" /\ pc' # pc) => usb'.out = "armed" ]_vars

\* one buffer was answered, one was discarded on a halted endpoint
C9_Witness ==
    /\ pc = "loop" /\ usb.out = "armed"
    /\ obs.delivered = 2 /\ obs.sent = 1 /\ obs.dropped = 1

\* C10: an ADCREAD that does not find the ready line low makes no clock
\* edge, leaves the instrument outputs, CS1, the DAC and the calibration
\* rows alone, does not disturb the converter (the only change of its state
\* is a conversion completing by itself), and returns "WAIT" with CS2 high
\* after a single CS2 falling edge (no conversion-start pulse).
C10_WaitHasNoSideEffect ==
    [][ (pc = "exec" /\ received_data = STR_ADCREAD
         /\ obs.cmd.rdy # "low" /\ obs'.cmd.rdy # "low")
        => /\ \A q \in Pins \ {"CS2_LAT"} : pin'[q] = pin[q]
           /\ dac' = dac
           /\ heflash' = heflash
           /\ adc' = adc \/ (adc.st = "converting" /\ adc' = [adc EXCEPT !.st = "ready"])
           /\ pc' = "send" =>
                 /\ obs'.cmd.rdy = "high"
                 /\ obs'.cmd.clk = 0
                 /\ obs'.cmd.cs2falls = 1
                 /\ CS2Line(pin') = HIGH
                 /\ SubSeq(transmit_data', 1, transmit_data_length') = STR_WAIT
      ]_vars

\* an ADCREAD answered WAIT, the conversion completed afterwards, and the
\* next ADCREAD finds it and replies 6 bytes
C10_Witness ==
    /\ pc = "send"
    /\ obs.prev = STR_ADCREAD
    /\ usb.in_sent = STR_WAIT
    /\ received_data = STR_ADCREAD
    /\ obs.cmd.rdy = "low"
    /\ transmit_data_length = 6

\* C13: WriteByteSPI(v) makes exactly 8 clock pulses; at the rising edge
\* of the i-th pulse the data line, an output, already carries bit 8-i of v
\* and keeps it; the data line is not written while the clock is high.
C13_WriteByteMsbFirst ==
    /\ [](pc = "send" => obs.cmd.clk = 8)
    /\ [][ (ClockLine(pin) = LOW /\ ClockLine(pin') = HIGH)
           => /\ pin["DATA1_DIR"] = OUTPUT
              /\ pin["DATA1_LAT"] = BitOf(data[1], 7 - obs.cmd.clk)
              /\ pin'["DATA1_LAT"] = pin["DATA1_LAT"] ]_vars
    /\ [][ ClockLine(pin) = HIGH => pin'["DATA1_LAT"] = pin["DATA1_LAT"] ]_vars

\* the byte 165 (10100101) has been written: 8 pulses, last bit 1
C13_Witness ==
    /\ pc = "send"
    /\ data[1] = 165
    /\ obs.cmd.clk = 8
    /\ pin["DATA1_LAT"] = HIGH
    /\ dac.phase = "rd" /\ dac.addr = 5

\* the byte made of bits 8i-7 .. 8i of a sequence of levels, first bit
\* most significant
RECURSIVE BitsValue(_)
BitsValue(bits) ==
    IF bits = <<>> THEN 0
    ELSE 2 * BitsValue(SubSeq(bits, 1, Len(bits) - 1)) + bits[Len(bits)]

SampledBytes(bits) == [i \in 1..3 |-> BitsValue(SubSeq(bits, 8 * i - 7, 8 * i))]

AdcReadRunning == pc \in {"exec", "send"} /\ received_data = STR_ADCREAD

\* C14: a ready ADCREAD makes 24 clock pulses, all with CS2 low; DATA1 and
\* DATA2 are sampled once after each pulse, with the clock low and no clock
\* edge between the two samples; the reply is 6 bytes, bytes 0..2 the DATA1
\* samples and bytes 3..5 the DATA2 samples in arrival order, first sample
\* most significant, together one result pair of the converters; CS2 falls
\* once more after the last pulse and ends high, starting a conversion.
C14_ReadyReadTwoChannels ==
    /\ [](AdcReadRunning =>
            /\ Len(obs.cmd.s2) <= Len(obs.cmd.s1)
            /\ Len(obs.cmd.s1) <= obs.cmd.clk
            /\ obs.cmd.clk <= Len(obs.cmd.s2) + 1)
    /\ []((pc = "send" /\ received_data = STR_ADCREAD /\ obs.cmd.rdy = "low") =>
            /\ obs.cmd.clk = 24
            /\ Len(obs.cmd.s1) = 24 /\ Len(obs.cmd.s2) = 24
            /\ transmit_data_length = 6
            /\ Reply = SampledBytes(obs.cmd.s1) \o SampledBytes(obs.cmd.s2)
            /\ <<SubSeq(Reply, 1, 3), SubSeq(Reply, 4, 6)>> \in AdcSamples
            /\ obs.cmd.cs2falls = 2
            /\ CS2Line(pin) = HIGH
            /\ adc.st \in {"converting", "ready"})
    /\ [][ AdcReadRunning =>
            /\ ClockLine(pin') # ClockLine(pin)
                  => CS2Line(pin) = LOW /\ CS1Line(pin) = HIGH
            /\ (obs'.cmd.s1 # obs.cmd.s1 \/ obs'.cmd.s2 # obs.cmd.s2)
                  => CS2Line(pin) = LOW /\ ClockLine(pin) = LOW
            /\ (CS2Line(pin) = HIGH /\ CS2Line(pin') = LOW)
                  => obs.cmd.clk \in {0, 24} ]_vars

\* a ready ADCREAD replied the pair 18 52 86 / 171 205 239
C14_Witness ==
    /\ pc = "send"
    /\ received_data = STR_ADCREAD
    /\ obs.cmd.rdy = "low"
    /\ obs.cmd.clk = 24
    /\ Reply = <<18, 52, 86, 171, 205, 239>>

\* C15: the clock line changes only while a chip-select is low; a
\* chip-select changes only while the clock is low, and the firmware's next
\* operation after a chip-select edge is the bus delay.  Hence in every
\* transaction the chip-select falls before the first clock edge and rises
\* after the last, with the clock back low.
C15_ChipSelectFrames ==
    [][ /\ ClockLine(pin') # ClockLine(pin)
           => CS1Line(pin) = LOW \/ CS2Line(pin) = LOW
        /\ (CS1Line(pin') # CS1Line(pin) \/ CS2Line(pin') # CS2Line(pin))
           => /\ ClockLine(pin) = LOW
              /\ todo' # <<>>
              /\ Head(todo').op = "delay"
              /\ Head(todo').val = SPIDelayCycles ]_vars

\* C16: DATA1 is an output only while CS1 is low and CS2 high; it becomes
\* an output only to write a byte (the next operation puts the first bit on
\* the line); it is an input whenever CS2 is low, whenever DATA1_PIN is
\* sampled (data bits, the ready poll) and whenever a chip-select rises.
C16_Data1Direction ==
    /\ [](pin["DATA1_DIR"] = OUTPUT => CS1Line(pin) = LOW /\ CS2Line(pin) = HIGH)
    /\ [](CS2Line(pin) = LOW => pin["DATA1_DIR"] = INPUT)
    /\ [][ /\ (pin["DATA1_DIR"] = INPUT /\ pin'["DATA1_DIR"] = OUTPUT)
              => todo' # <<>> /\ Head(todo').op = "set" /\ Head(todo').pin = "DATA1_LAT"
           /\ (obs'.cmd.s1 # obs.cmd.s1 \/ obs'.cmd.polls # obs.cmd.polls)
              => pin["DATA1_DIR"] = INPUT
           /\ ((CS1Line(pin) = LOW /\ CS1Line(pin') = HIGH)
               \/ (CS2Line(pin) = LOW /\ CS2Line(pin') = HIGH))
              => pin["DATA1_DIR"] = INPUT /\ pin'["DATA1_DIR"] = INPUT ]_vars

\* DACCAL reading the calibration registers: CS1 low, the read command has
\* been written, DATA1 is an input and has been sampled
C16_Witness ==
    /\ pc = "exec"
    /\ received_data = STR_DACCAL
    /\ CS1Line(pin) = LOW
    /\ pin["DATA1_DIR"] = INPUT
    /\ Len(obs.cmd.s1) = 1

\* the clock-high times of the DAC reset pattern, in microseconds
ResetHighUs == <<264, 570, 903>>

\* C17: at boot the first CS1 transaction is the reset: it starts with the
\* bus as InitializeSPI leaves it, contains exactly three clock pulses, high
\* for 264, 570 and 903 us in this order, CS1 low at each edge, DATA1 never
\* an output nor written; no DAC register changes before a later
\* transaction (DAC1220_Init, then the calibration registers), whose pulses
\* have the width of the bus delay.
C17_ResetPulses ==
    [][ pc = "InitializeIO" =>
        /\ (ClockLine(pin) = HIGH /\ ClockLine(pin') = LOW /\ obs.cmd.cs1falls >= 1)
           => /\ CS1Line(pin) = LOW
              /\ obs.cmd.width = (IF obs.cmd.clk - obs.cmd.idleclk <= 3
                                  THEN ResetHighUs[obs.cmd.clk - obs.cmd.idleclk] * CyclesPerUs
                                  ELSE SPIDelayCycles)
              /\ obs.cmd.clk - obs.cmd.idleclk <= 3 <=> obs.cmd.cs1falls = 1
        /\ (CS1Line(pin) = HIGH /\ CS1Line(pin') = LOW /\ obs.cmd.cs1falls = 0)
           => pin \in BootPins /\ obs.cmd.clk = obs.cmd.idleclk
        /\ (CS1Line(pin) = LOW /\ CS1Line(pin') = HIGH /\ obs.cmd.cs1falls = 1)
           => obs.cmd.clk - obs.cmd.idleclk = 3 /\ ClockLine(pin) = LOW
        /\ obs.cmd.cs1falls <= 1
           => /\ pin'["DATA1_DIR"] = INPUT
              /\ pin'["DATA1_LAT"] = pin["DATA1_LAT"]
              /\ dac'.reg = DacPowerOn.reg ]_vars

\* the third reset pulse has just ended after 903 us, CS1 still low
C17_Witness ==
    /\ pc = "InitializeIO"
    /\ obs.cmd.cs1falls = 1
    /\ obs.cmd.clk - obs.cmd.idleclk = 3
    /\ ClockLine(pin) = LOW /\ CS1Line(pin) = LOW
    /\ obs.cmd.width = 903 * CyclesPerUs

\* C18: inside DACCAL the DAC is asked to read a register only after the
\* self-calibration was requested and a wait of 500 ms has elapsed, and only
\* the offset (8) and gain (12) registers; the reply is assigned only after
\* both have been read (48 bits); the command buffer stays the same until
\* the handler has returned; at return the reply is "OK" and data holds the
\* offset then the gain the DAC has after the calibration.
C18_CalibrateOrder ==
    /\ [][ (pc = "exec" /\ received_data = STR_DACCAL) =>
            /\ (dac'.phase = "rd" /\ dac.phase # "rd")
               => obs.cmd.calwait = "waited" /\ dac'.addr \in {8, 12}
            /\ obs'.cmd.replies # obs.cmd.replies
               => obs.cmd.calwait = "waited" /\ Len(obs.cmd.s1) = 48
            /\ received_data' = received_data
            /\ obs'.interpreted = obs.interpreted
            /\ pc' \in {"exec", "send"} ]_vars
    /\ []((pc = "send" /\ received_data = STR_DACCAL) =>
            /\ obs.cmd.calwait = "waited"
            /\ Reply = STR_OK
            /\ data = <<dac.reg[8], dac.reg[9], dac.reg[10],
                        dac.reg[12], dac.reg[13], dac.reg[14]>>
            /\ data \in SelfCalResults)

\* DACCAL has waited and is reading the gain register
C18_Witness ==
    /\ pc = "exec"
    /\ received_data = STR_DACCAL
    /\ obs.cmd.calwait = "waited"
    /\ dac.phase = "rd" /\ dac.addr = 12
    /\ Len(obs.cmd.s1) = 30

\* C19: the Cell output changes only inside CELL ON / CELL OFF, the Mode
\* output only inside POTENTIOSTATIC / GALVANOSTATIC, a Range output only
\* inside RANGE n; once InitializeIO has returned no other step of the
\* firmware, in any other command or outside commands, changes any of the
\* five outputs, and the five pins stay outputs.
C19_FieldsIndependent ==
    [][ pc # "InitializeIO" =>
        /\ pin'["CELL_ON_PIN"] # pin["CELL_ON_PIN"]
           => pc = "exec" /\ received_data \in {STR_CELL_ON, STR_CELL_OFF}
        /\ pin'["MODE_SW_PIN"] # pin["MODE_SW_PIN"]
           => pc = "exec" /\ received_data \in {STR_POTENTIOSTATIC, STR_GALVANOSTATIC}
        /\ (\E r \in RangePins : pin'[r] # pin[r])
           => pc = "exec" /\ received_data \in {STR_RANGE_1, STR_RANGE_2, STR_RANGE_3}
        /\ \A q \in {"MODE_SW_PIN", "CELL_ON_PIN"} \cup RangePins :
              pin'[TrisOf(q)] = OUTPUT ]_vars

\* CELL ON then GALVANOSTATIC: the mode has changed, the cell is still on
\* and the range is still 1
C19_Witness ==
    /\ pc = "send"
    /\ obs.prev = STR_CELL_ON
    /\ received_data = STR_GALVANOSTATIC
    /\ pin["MODE_SW_PIN"] = GALVANOSTATIC
    /\ pin["CELL_ON_PIN"] = CELL_ON
    /\ pin["RANGE1_PIN"] = 1 /\ pin["RANGE2_PIN"] = 0 /\ pin["RANGE3_PIN"] = 0

\* the six bytes of the DAC calibration registers 8..10 and 12..14
DacCalRegisters ==
    <<dac.reg[8], dac.reg[9], dac.reg[10], dac.reg[12], dac.reg[13], dac.reg[14]>>

\* the commands that write slot r
WritesSlot(buf, r) ==
    IF r = OffsetRow THEN HasPayload(buf, STR_OFFSETSAVE, 6)
    ELSE IF r = ShuntCalRow THEN HasPayload(buf, STR_SHUNTCALSAVE, 6)
    ELSE HasPayload(buf, STR_DACCALSET, 6) \/ buf = STR_DACCAL

\* C20: the Offset slot changes only inside OFFSETSAVE, the Shunt
\* Calibration slot only inside SHUNTCALSAVE, the DAC Calibration slot only
\* inside DACCALSET or DACCAL; after DACCAL the DAC Calibration slot holds
\* the six bytes read back from the DAC calibration registers, so a
\* DACCALGET right after DACCAL replies those bytes, while a DACCALGET right
\* after DACCALSET replies the DACCALSET payload; no read command (and no
\* other command) changes any slot.
C20_SlotWriters ==
    /\ [][ \A r \in Rows :
             heflash'[r] # heflash[r]
             => pc = "exec" /\ WritesSlot(received_data, r) ]_vars
    /\ []((pc = "send" /\ received_data = STR_DACCAL)
            => HEFLASH_readBlock(heflash, DacCalRow) = DacCalRegisters)
    /\ []((pc = "send" /\ received_data = STR_DACCALGET /\ obs.prev = STR_DACCAL)
            => Reply = DacCalRegisters /\ Reply \in SelfCalResults)
    /\ []((pc = "send" /\ received_data = STR_DACCALGET
              /\ HasPayload(obs.prev, STR_DACCALSET, 6))
            => Reply = PayloadOf(obs.prev, STR_DACCALSET))

\* DACCAL then DACCALGET on a store that held 33..38 in the DAC Calibration
\* slot: the reply is the record read back from the DAC, the other two
\* slots still hold what they held
C20_Witness ==
    /\ pc = "send"
    /\ obs.prev = STR_DACCAL
    /\ received_data = STR_DACCALGET
    /\ Reply = <<9, 8, 7, 6, 5, 4>>
    /\ HEFLASH_readBlock(heflash, OffsetRow) = <<17, 18, 19, 20, 21, 22>>
    /\ HEFLASH_readBlock(heflash, ShuntCalRow) = <<49, 50, 51, 52, 53, 54>>

\* C21: at every command boundary after boot the stored DAC Calibration
\* record equals the DAC's calibration registers: bytes 0..2 the register
\* at address 8, bytes 3..5 the register at address 12.
C21_StoreMatchesRegisters ==
    AtBoundary => HEFLASH_readBlock(heflash, DacCalRow) = DacCalRegisters

\* DACCALSET of 165 90 0 255 128 127 has replied: store and registers hold it
C21_Witness ==
    /\ pc = "send"
    /\ received_data = STR_DACCALSET \o <<165, 90, 0, 255, 128, 127>>
    /\ DacCalRegisters = <<165, 90, 0, 255, 128, 127>>
    /\ HEFLASH_readBlock(heflash, DacCalRow) = <<165, 90, 0, 255, 128, 127>>

\* the bus at rest: both chip-selects driven high, the clock driven low,
\* DATA1 an input
BusIdle ==
    /\ pin["CS1_DIR"] = OUTPUT /\ pin["CS1_LAT"] = HIGH
    /\ pin["CS2_DIR"] = OUTPUT /\ pin["CS2_LAT"] = HIGH
    /\ pin["CLOCK_DIR"] = OUTPUT /\ pin["CLOCK_LAT"] = LOW
    /\ pin["DATA1_DIR"] = INPUT

\* C22: in no reachable state are both chip-select lines low, and at every
\* command boundary (after boot and after every command, whatever its
\* outcome) both chip-selects are high, the clock is low and DATA1 is an
\* input.
C22_BusExclusiveAndIdle ==
    /\ ~(CS1Line(pin) = LOW /\ CS2Line(pin) = LOW)
    /\ AtBoundary => BusIdle

\* DACCAL, then an ADCREAD that found the converters busy and replied WAIT:
\* both converters have been selected in turn and the bus is at rest
C22_Witness ==
    /\ pc = "send"
    /\ obs.prev = STR_DACCAL
    /\ received_data = STR_ADCREAD
    /\ Reply = STR_WAIT
    /\ obs.cmd.cs2falls = 1
    /\ BusIdle

====
